---- MODULE Spec2Model ----
(***************************************************************************)
(* Model of the AnosysLoggers package: the key remapper (reassign) of both *)
(* pipelines, the nested attribute reconstructor (set_nested /             *)
(* deserialize_attributes), the span flattener's attribute probing         *)
(* (extract_span_info), the exporter adapter (CustomConsoleExporter.export)*)
(* and the function decorator (anosys_logger).                             *)
(*                                                                         *)
(* Python values are tagged records:                                       *)
(*   [t |-> "none"], [t |-> "str", v |-> s], [t |-> "int", v |-> n],       *)
(*   [t |-> "dict", d |-> function], [t |-> "list", l |-> sequence].       *)
(* A Python dict whose insertion order matters (the data argument of       *)
(* reassign) is a sequence of <<key, value>> pairs with distinct keys.     *)
(***************************************************************************)
EXTENDS Integers, Sequences, FiniteSets, TLC

VARIABLES
  module,       \* which module's globals the remapper runs on
  key_to_cvs,   \* the module-global Field Mapping of that module
  last,         \* the last sequential reassign call: its arguments and result
  thr,          \* the two threads racing in reassign (locals and position)
  written,      \* history: per key, the tokens written to key_to_cvs, in order
  epc,          \* exporter: position inside CustomConsoleExporter.export
  spans_n,      \* exporter: number of spans in the batch
  span_i,       \* exporter: index of the span being processed
  new_attrs,    \* deserialize_attributes: the tree being rebuilt
  used,         \* deserialize_attributes: flat keys already applied, in order
  posted,       \* exporter: POST attempts so far, <<span index, outcome>>
  result,       \* exporter: what export did: "none", "SUCCESS" or "raised"
  sys_stdout,   \* decorator: the object sys.stdout refers to (0 = the console)
  stack,        \* decorator: the live wrapper frames, outermost first
  console,      \* decorator: what was written to the real standard output
  logged,       \* decorator: number of payloads handed to requests.post
  ncalls        \* decorator: number of wrapper invocations so far

vars == <<module, key_to_cvs, last, thr, written, epc, spans_n, span_i,
          new_attrs, used, posted, result, sys_stdout, stack, console, logged,
          ncalls>>

(***************************************************************************)
(* Bounds of the model.                                                    *)
(***************************************************************************)
MaxKeys == 2

MaxAttrs == 2

MaxSpans == 2

MaxDepth == 2

MaxCalls == 2

MaxPrints == 1

(***************************************************************************)
(* Python values.                                                          *)
(***************************************************************************)
PyNone == [t |-> "none"]

MkStr(s) == [t |-> "str", v |-> s]

MkInt(n) == [t |-> "int", v |-> n]

EmptyMap == [x \in {} |-> PyNone]

MkDict(f) == [t |-> "dict", d |-> f]

MkList(s) == [t |-> "list", l |-> s]

\* d[k] = v on a Python dict
Put(f, k, v) == [x \in DOMAIN f \cup {k} |-> IF x = k THEN v ELSE f[x]]

\* str(value) for the scalars the model passes around
PyToStr(val) ==
  CASE val.t = "none" -> "None"
    [] val.t = "str"  -> val.v
    [] val.t = "int"  -> ToString(val.v)

(***************************************************************************)
(* Key Remapper.                                                           *)
(***************************************************************************)
TracingMap ==
  [k \in {"cvn1", "cvn2", "name", "trace_id", "span_id", "trace_state",
          "parent_id", "start_time", "end_time", "kind", "resp_id", "input",
          "output", "tool", "llm_tools", "llm_token_count",
          "llm_output_messages", "llm_input_messages", "llm_model_name",
          "llm_invocation_parameters", "from_source", "raw"} |->
     CASE k = "cvn1" -> "cvn1"
       [] k = "cvn2" -> "cvn2"
       [] k = "name" -> "otel_name"
       [] k = "trace_id" -> "otel_trace_id"
       [] k = "span_id" -> "otel_span_id"
       [] k = "trace_state" -> "otel_trace_flags"
       [] k = "parent_id" -> "otel_parent_span_id"
       [] k = "start_time" -> "otel_start_time"
       [] k = "end_time" -> "otel_end_time"
       [] k = "kind" -> "otel_kind"
       [] k = "resp_id" -> "otel_status_message"
       [] k = "input" -> "cvs1"
       [] k = "output" -> "cvs2"
       [] k = "tool" -> "cvs3"
       [] k = "llm_tools" -> "cvs4"
       [] k = "llm_token_count" -> "cvs5"
       [] k = "llm_output_messages" -> "cvs6"
       [] k = "llm_input_messages" -> "cvs7"
       [] k = "llm_model_name" -> "cvs8"
       [] k = "llm_invocation_parameters" -> "cvs9"
       [] k = "from_source" -> "cvs200"
       [] k = "raw" -> "cvs199"]

DecoratorMap ==
  [k \in {"input", "output", "source"} |->
     CASE k = "input" -> "cvs14"
       [] k = "output" -> "cvs15"
       [] k = "source" -> "cvs200"]

Modules == {"tracing", "decorator"}

InitMap(mod) == IF mod = "tracing" THEN TracingMap ELSE DecoratorMap

TracingStart == 20

DecoratorStart == 100

DefaultStart(mod) == IF mod = "tracing" THEN TracingStart ELSE DecoratorStart

\* f"cvs{cvs_index}"
Token(cvs_index) == "cvs" \o ToString(cvs_index)

MutNotInMapping(m, key) == TRUE

\* `key not in key_to_cvs`
NotInMapping(m, key) == key \notin DOMAIN m

MutMapWrite(m, key, cvs_index) ==
  IF key \in DOMAIN m THEN m ELSE Put(m, key, Token(cvs_index))

\* `key_to_cvs[key] = f"cvs{cvs_index}"`
MapWrite(m, key, cvs_index) == Put(m, key, Token(cvs_index))

MutNextIndex(cvs_index) == cvs_index

\* `cvs_index += 1`
NextIndex(cvs_index) == cvs_index + 1

\* `str(value) if value is not None else None`
StrOrNone(value) == IF value.t = "none" THEN PyNone ELSE MkStr(PyToStr(value))

MutEmit(cvs_vars, cvs_var, value) ==
  IF cvs_var \in DOMAIN cvs_vars THEN cvs_vars
  ELSE Put(cvs_vars, cvs_var, StrOrNone(value))

\* `cvs_vars[cvs_var] = ...`
Emit(cvs_vars, cvs_var, value) == Put(cvs_vars, cvs_var, StrOrNone(value))

\* one iteration of `for key, value in data.items()`
LoopBody(st, key, value) ==
  LET fresh == NotInMapping(st.m, key)
      m1    == IF fresh THEN MapWrite(st.m, key, st.idx) ELSE st.m
      idx1  == IF fresh THEN NextIndex(st.idx) ELSE st.idx
      cvs_var == m1[key]
  IN  [m |-> m1, idx |-> idx1, out |-> Emit(st.out, cvs_var, value)]

RECURSIVE ReassignLoop(_, _, _)
ReassignLoop(st, data, i) ==
  IF i > Len(data) THEN st
  ELSE ReassignLoop(LoopBody(st, data[i][1], data[i][2]), data, i + 1)

\* reassign(data, starting_index) run on mapping m: the mapping afterwards
\* (m), the counter afterwards (idx) and the returned cvs_vars (out)
ReassignOn(m, data, starting_index) ==
  ReassignLoop([m |-> m, idx |-> starting_index, out |-> EmptyMap], data, 1)

\* Inputs of the sequential remapper: two keys no module knows, one key with
\* a fixed alias; starting_index is the default or the alias key's number.
NewKeys == {"k1", "k2"}

AliasKey(mod) == IF mod = "tracing" THEN "llm_invocation_parameters" ELSE "output"

AliasIndex(mod) == IF mod = "tracing" THEN 9 ELSE 15

KeySet(mod) == NewKeys \cup {AliasKey(mod)}

ValueSet == {PyNone, MkInt(7)}

StartSet(mod) == {DefaultStart(mod), AliasIndex(mod)}

RECURSIVE DictsOfLen(_, _)
DictsOfLen(keys, n) ==
  IF n = 0 THEN {<<>>}
  ELSE {Append(d, <<k, v>>) :
          d \in DictsOfLen(keys, n - 1), k \in keys, v \in ValueSet}

Keys(data) == {data[i][1] : i \in 1..Len(data)}

\* the dicts over keys with at most MaxKeys entries, in every insertion order
DataSet(keys) ==
  {d \in UNION {DictsOfLen(keys, n) : n \in 0..MaxKeys} :
     Cardinality(Keys(d)) = Len(d)}

NoCall == [kind |-> "none"]

\* reassign called with a dict (or the JSON text of one, which json.loads
\* turns into the same dict)
Reassign(data, starting_index) ==
  LET r == ReassignOn(key_to_cvs, data, starting_index)
  IN  /\ key_to_cvs' = r.m
      /\ last' = [kind |-> "returned", data |-> data,
                  start |-> starting_index, out |-> r.out,
                  known |-> DOMAIN key_to_cvs]

\* reassign called with something that is not a mapping: ValueError
ReassignBadInput ==
  /\ last' = [kind |-> "raised"]
  /\ UNCHANGED key_to_cvs

OthersOfRemapper ==
  <<module, thr, written, epc, spans_n, span_i, new_attrs, used, posted,
    result, sys_stdout, stack, console, logged, ncalls>>

InitRest ==
  /\ thr = <<>>
  /\ written = EmptyMap
  /\ epc = "idle"
  /\ spans_n = 0
  /\ span_i = 0
  /\ new_attrs = MkDict(EmptyMap)
  /\ used = <<>>
  /\ posted = <<>>
  /\ result = "none"
  /\ sys_stdout = 0
  /\ stack = <<>>
  /\ console = <<>>
  /\ logged = 0
  /\ ncalls = 0

Init ==
  /\ module \in Modules
  /\ key_to_cvs = InitMap(module)
  /\ last = NoCall
  /\ InitRest

Next ==
  \/ \E data \in DataSet(KeySet(module)), s \in StartSet(module) :
       Reassign(data, s) /\ UNCHANGED OthersOfRemapper
  \/ ReassignBadInput /\ UNCHANGED OthersOfRemapper

Spec == Init /\ [][Next]_vars

(***************************************************************************)
(* Two threads inside reassign with no lock.  Each thread runs the loop of *)
(* reassign one statement at a time: the membership test, the map write,   *)
(* the counter increment, and the map read together with the write to the  *)
(* thread's own cvs_vars (a local, so the two form one step).  Both calls  *)
(* use the module's default starting_index, as every caller in the package *)
(* does.                                                                   *)
(***************************************************************************)
Threads == {1, 2}

\* the value a thread passes for a key: a string in thread 1, a number in
\* thread 2, different for every key
ThreadValue(t, k) ==
  LET n == CASE k = "k1" -> 1 [] k = "k2" -> 2 [] OTHER -> 0
  IN  IF t = 1 THEN MkStr("a" \o ToString(n)) ELSE MkInt(70 + n)

\* the dicts a thread may be called with, in every insertion order
ThreadData(mod, t) ==
  {[i \in 1..Len(d) |-> <<d[i][1], ThreadValue(t, d[i][1])>>] :
     d \in {e \in DataSet(KeySet(mod)) : Len(e) > 0}}

StartThread(data, starting_index) ==
  [pc |-> "test", data |-> data, start |-> starting_index, i |-> 1,
   cvs_index |-> starting_index, cvs_vars |-> EmptyMap, toks |-> EmptyMap]

CurKey(t) == thr[t].data[thr[t].i][1]

CurValue(t) == thr[t].data[thr[t].i][2]

OthersOfThreads ==
  <<module, last, epc, spans_n, span_i, new_attrs, used, posted, result,
    sys_stdout, stack, console, logged, ncalls>>

\* `if key not in key_to_cvs:`
Test(t) ==
  /\ thr[t].pc = "test"
  /\ thr' = [thr EXCEPT ![t].pc =
               IF NotInMapping(key_to_cvs, CurKey(t)) THEN "write" ELSE "read"]
  /\ UNCHANGED <<key_to_cvs, written>>

\* `key_to_cvs[key] = f"cvs{cvs_index}"`
Write(t) ==
  /\ thr[t].pc = "write"
  /\ key_to_cvs' = MapWrite(key_to_cvs, CurKey(t), thr[t].cvs_index)
  /\ written' = Put(written, CurKey(t),
                    Append(IF CurKey(t) \in DOMAIN written
                           THEN written[CurKey(t)] ELSE <<>>,
                           Token(thr[t].cvs_index)))
  /\ thr' = [thr EXCEPT ![t].pc = "inc"]

\* `cvs_index += 1`
Inc(t) ==
  /\ thr[t].pc = "inc"
  /\ thr' = [thr EXCEPT ![t].pc = "read",
                        ![t].cvs_index = NextIndex(thr[t].cvs_index)]
  /\ UNCHANGED <<key_to_cvs, written>>

\* `cvs_var = key_to_cvs[key]`, `cvs_vars[cvs_var] = ...`, and the loop's
\* advance to the next item (or the return)
Read(t) ==
  /\ thr[t].pc = "read"
  /\ CurKey(t) \in DOMAIN key_to_cvs
  /\ LET cvs_var == key_to_cvs[CurKey(t)]
     IN  thr' = [thr EXCEPT
           ![t].cvs_vars = Emit(thr[t].cvs_vars, cvs_var, CurValue(t)),
           ![t].toks = Put(thr[t].toks, CurKey(t), cvs_var),
           ![t].i = thr[t].i + 1,
           ![t].pc = IF thr[t].i + 1 > Len(thr[t].data) THEN "done" ELSE "test"]
  /\ UNCHANGED <<key_to_cvs, written>>

InitConc ==
  /\ module \in Modules
  /\ key_to_cvs = InitMap(module)
  /\ last = NoCall
  /\ written = EmptyMap
  /\ \E d1 \in ThreadData(module, 1), d2 \in ThreadData(module, 2) :
       /\ Keys(d1) \cap Keys(d2) \cap NewKeys # {}
       /\ thr = [t \in Threads |->
                   StartThread(IF t = 1 THEN d1 ELSE d2, DefaultStart(module))]
  /\ epc = "idle"
  /\ spans_n = 0
  /\ span_i = 0
  /\ new_attrs = MkDict(EmptyMap)
  /\ used = <<>>
  /\ posted = <<>>
  /\ result = "none"
  /\ sys_stdout = 0
  /\ stack = <<>>
  /\ console = <<>>
  /\ logged = 0
  /\ ncalls = 0

NextConc ==
  \/ \E t \in Threads : Test(t) /\ UNCHANGED OthersOfThreads
  \/ \E t \in Threads : Write(t) /\ UNCHANGED OthersOfThreads
  \/ \E t \in Threads : Inc(t) /\ UNCHANGED OthersOfThreads
  \/ \E t \in Threads : Read(t) /\ UNCHANGED OthersOfThreads

SpecConc == InitConc /\ [][NextConc]_vars

(***************************************************************************)
(* Nested Attribute Reconstructor.  An Attribute Path is the sequence of   *)
(* its segments, path.split(".").  set_nested walks `current` through the  *)
(* tree and mutates it in place; Walk(cur, parts, i) is that walk from     *)
(* segment i with current = cur and gives the exception raised, if any,    *)
(* and what the object cur has become (mutations made before an exception  *)
(* stay).                                                                  *)
(***************************************************************************)
EmptyDict == MkDict(EmptyMap)

\* the segments int(part) accepts, of those the model uses
IntSegs == {"0", "1"}

IsIntSeg(part) == part \in IntSegs

IntOf(part) == IF part = "0" THEN 0 ELSE 1

\* the single-line strings of the model for which
\* value.strip().startswith(("{", "[")) and that reach that test
JsonLooking == {"{\"id\": \"r1\"}", "{bad", "{\"a\":1}"}

\* json.loads on the single-line strings of the model: the parsed value, or
\* JSONDecodeError
JsonLoads(str) ==
  CASE str = "{\"id\": \"r1\"}" ->
         [ok |-> TRUE, val |-> MkDict([k \in {"id"} |-> MkStr("r1")])]
    [] str = "{\"a\":1}" ->
         [ok |-> TRUE, val |-> MkDict([k \in {"a"} |-> MkInt(1)])]
    [] str = "7" -> [ok |-> TRUE, val |-> MkInt(7)]
    [] OTHER -> [ok |-> FALSE, val |-> PyNone]

\* lines 189-193: a JSON-looking string is parsed, invalid JSON is kept
ParseValue(value) ==
  IF value.t = "str" /\ value.v \in JsonLooking /\ JsonLoads(value.v).ok
  THEN JsonLoads(value.v).val
  ELSE value

\* `while len(current) <= idx: current.append(filler)`
RECURSIVE Grow(_, _, _)
Grow(lst, idx, filler) ==
  IF Len(lst) <= idx THEN Grow(Append(lst, filler), idx, filler) ELSE lst

\* parts[i - 1] with Python's indexing: for the first segment (i = 0 in the
\* code) it is parts[-1], the last segment
PrevPart(parts, i) == IF i = 1 THEN parts[Len(parts)] ELSE parts[i - 1]

NoErr(value) == [err |-> "none", val |-> value]

\* lines 177-197, the final segment, with current = cur
SetFinal(cur, parts, value) ==
  LET final_key == parts[Len(parts)]
  IN  IF IsIntSeg(final_key)
      THEN LET idx == IntOf(final_key)
           IN  IF cur.t = "list"
               THEN NoErr(MkList([Grow(cur.l, idx, PyNone)
                                    EXCEPT ![idx + 1] = ParseValue(value)]))
               ELSE IF cur.t = "dict"
               THEN IF Len(parts) = 1
                    THEN [err |-> "IndexError", val |-> cur]
                    ELSE NoErr(MkDict(Put(cur.d, parts[Len(parts) - 1],
                           MkList([Grow(<<>>, idx, PyNone)
                                     EXCEPT ![idx + 1] = ParseValue(value)]))))
               ELSE NoErr(cur)
      ELSE IF cur.t = "dict"
           THEN NoErr(MkDict(Put(cur.d, final_key, ParseValue(value))))
           ELSE [err |-> "TypeError", val |-> cur]

RECURSIVE Walk(_, _, _, _)
Walk(cur, parts, i, value) ==
  IF i >= Len(parts) THEN SetFinal(cur, parts, value)
  ELSE
    LET part == parts[i]
    IN  IF IsIntSeg(part)
        THEN \* lines 164-172
          LET idx   == IntOf(part)
              grown == Grow(IF cur.t = "list" THEN cur.l ELSE <<>>, idx, EmptyDict)
              r     == Walk(grown[idx + 1], parts, i + 1, value)
              lst   == MkList([grown EXCEPT ![idx + 1] = r.val])
          IN  IF cur.t = "list" THEN [err |-> r.err, val |-> lst]
              ELSE IF cur.t = "dict"
              THEN [err |-> r.err,
                    val |-> MkDict(Put(cur.d, PrevPart(parts, i), lst))]
              ELSE [err |-> r.err, val |-> cur]
        ELSE \* lines 173-176, the ValueError handler
          IF cur.t = "dict"
          THEN LET child == IF part \in DOMAIN cur.d
                               /\ cur.d[part].t \in {"dict", "list"}
                            THEN cur.d[part] ELSE EmptyDict
                   r     == Walk(child, parts, i + 1, value)
               IN  [err |-> r.err, val |-> MkDict(Put(cur.d, part, r.val))]
          ELSE [err |-> "TypeError", val |-> cur]

\* set_nested(obj, path, value)
set_nested(obj, parts, value) == Walk(obj, parts, 1, value)

(***************************************************************************)
(* Span Flattener: the attribute probing of extract_span_info.  Every      *)
(* chained .get needs a dict to call it on; anything else has no .get and  *)
(* raises AttributeError.                                                  *)
(***************************************************************************)
\* dict.get(key, default)
Get(dct, key, default) == IF key \in DOMAIN dct.d THEN dct.d[key] ELSE default

\* bool(value)
Truthy(value) ==
  CASE value.t = "none" -> FALSE
    [] value.t = "str"  -> value.v # ""
    [] value.t = "int"  -> value.v # 0
    [] value.t = "dict" -> DOMAIN value.d # {}
    [] value.t = "list" -> Len(value.l) > 0

HasGet(value) == value.t = "dict"

\* whether extract_span_info raises on the reconstructed attributes
ExtractRaises(attributes) ==
  LET llm    == Get(attributes, "llm", EmptyDict)
      input  == Get(attributes, "input", EmptyDict)
      output == Get(attributes, "output", EmptyDict)
      fi     == Get(attributes, "fi", EmptyDict)
      output_attr == Get(attributes, "output", PyNone)
  IN  \/ ~HasGet(llm)
      \/ ~HasGet(Get(llm, "output_messages", EmptyDict))
      \/ ~HasGet(Get(llm, "input_messages", EmptyDict))
      \/ ~HasGet(input)
      \/ ~HasGet(output)
      \/ ~HasGet(fi)
      \/ ~HasGet(Get(fi, "span", EmptyDict))
      \/ /\ output_attr.t = "dict"
         /\ Truthy(Get(output_attr, "value", PyNone))
         /\ ~HasGet(Get(output_attr, "value", PyNone))

\* the keys of `variables`, in assignment order; raw_json is always given
\* by export.  The values do not influence the Field Mapping and the POST
\* payload is not part of the model, so they are left as None.
ExtractVariables ==
  [i \in 1..22 |->
     <<<<"name", "trace_id", "span_id", "trace_state", "parent_id",
        "start_time", "cvn1", "end_time", "cvn2", "llm_tools",
        "llm_token_count", "llm_output_messages", "llm_input_messages",
        "llm_model_name", "llm_invocation_parameters", "input", "output",
        "tool", "kind", "from_source", "resp_id", "raw">>[i], PyNone>>]

(***************************************************************************)
(* Exporter Adapter: CustomConsoleExporter.export on one batch.  The spans *)
(* are inputs: the flat attributes of a span are drawn one at a time as    *)
(* deserialize_attributes iterates over them.                              *)
(***************************************************************************)
PathSet ==
  { <<"0">>, <<"a">>, <<"0", "a">>, <<"a", "0">>, <<"a", "a">>,
    <<"0", "0">>, <<"a", "0", "a">>, <<"a", "a", "0">>, <<"0", "a", "0">>,
    <<"a", "b">>, <<"a", "b", "0", "c">>, <<"a", "b", "1", "c">>,
    <<"output">>, <<"output", "value">>, <<"0", "output">>,
    <<"input", "value">>, <<"llm">>, <<"llm", "tools">>,
    <<"llm", "output_messages", "0", "role">>, <<"fi", "span", "kind">> }

AttrValues == {MkStr("x"), MkStr("y"), MkStr("{\"id\": \"r1\"}"), MkStr("{bad")}

PostOutcomes == {"ok", "network_error", "bad_status"}

OthersOfExport ==
  <<module, last, thr, written, sys_stdout, stack, logged, ncalls>>

\* export(spans) is called with a batch of n spans
ExportBegin(n) ==
  /\ epc = "idle"
  /\ spans_n' = n
  /\ span_i' = 1
  /\ new_attrs' = EmptyDict
  /\ used' = <<>>
  /\ epc' = IF n = 0 THEN "done" ELSE "deserialize"
  /\ result' = IF n = 0 THEN "SUCCESS" ELSE "none"
  /\ UNCHANGED <<key_to_cvs, posted, console>>

\* deserialize_attributes: one `set_nested(new_attrs, key, value)`
SetNestedStep(path, value) ==
  /\ epc = "deserialize"
  /\ Len(used) < MaxAttrs
  /\ \A i \in 1..Len(used) : used[i][1] # path
  /\ LET r == set_nested(new_attrs, path, value)
     IN  /\ new_attrs' = r.val
         /\ used' = Append(used, <<path, value>>)
         /\ epc' = IF r.err = "none" THEN "deserialize" ELSE "done"
         /\ result' = IF r.err = "none" THEN result ELSE "raised"
  /\ UNCHANGED <<key_to_cvs, spans_n, span_i, posted, console>>

\* the attributes are exhausted: extract_span_info(deserialized, raw_json)
Extract ==
  /\ epc = "deserialize"
  /\ IF ExtractRaises(new_attrs)
     THEN /\ epc' = "done"
          /\ result' = "raised"
          /\ UNCHANGED key_to_cvs
     ELSE /\ epc' = "post"
          /\ result' = result
          /\ key_to_cvs' = ReassignOn(key_to_cvs, ExtractVariables, TracingStart).m
  /\ UNCHANGED <<spans_n, span_i, new_attrs, used, posted, console>>

\* requests.post and raise_for_status inside try/except, then the next span
\* or `return SpanExportResult.SUCCESS`
Post(outcome) ==
  /\ epc = "post"
  /\ posted' = Append(posted, <<span_i, outcome>>)
  /\ console' = IF outcome = "ok" THEN console
                ELSE console \o <<"[ANOSYS] POST failed", "[ANOSYS] Data">>
  /\ IF span_i < spans_n
     THEN /\ span_i' = span_i + 1
          /\ new_attrs' = EmptyDict
          /\ used' = <<>>
          /\ epc' = "deserialize"
          /\ result' = result
     ELSE /\ epc' = "done"
          /\ result' = "SUCCESS"
          /\ UNCHANGED <<span_i, new_attrs, used>>
  /\ UNCHANGED <<key_to_cvs, spans_n>>

InitExport ==
  /\ module = "tracing"
  /\ key_to_cvs = TracingMap
  /\ last = NoCall
  /\ InitRest

NextExport ==
  \/ \E n \in 0..MaxSpans : ExportBegin(n) /\ UNCHANGED OthersOfExport
  \/ \E path \in PathSet, value \in AttrValues :
       SetNestedStep(path, value) /\ UNCHANGED OthersOfExport
  \/ Extract /\ UNCHANGED OthersOfExport
  \/ \E outcome \in PostOutcomes : Post(outcome) /\ UNCHANGED OthersOfExport

SpecExport == InitExport /\ [][NextExport]_vars

(***************************************************************************)
(* Function Decorator.  A str of one line is MkStr(line); a str of several *)
(* lines is MkText(lines).  What is written to a stream is kept as the     *)
(* sequence of its lines: every write comes from print, which ends the     *)
(* line.  No line of the model is empty or has surrounding whitespace, so  *)
(* strip() of a captured text removes exactly the final newline.  The str  *)
(* that json.dumps(val, indent=2) returns is MkJsonText(val).              *)
(***************************************************************************)
MkText(lines) == [t |-> "text", lines |-> lines]

MkJsonText(val) == [t |-> "jsontext", val |-> val]

RECURSIVE Join(_, _)
Join(lines, sep) ==
  IF Len(lines) = 0 THEN ""
  ELSE IF Len(lines) = 1 THEN lines[1]
  ELSE lines[1] \o sep \o Join(Tail(lines), sep)

\* printed_output.strip() of a stream holding these lines
Strip(lines) ==
  IF Len(lines) = 0 THEN MkStr("")
  ELSE IF Len(lines) = 1 THEN MkStr(lines[1])
  ELSE MkText(lines)

\* json.dumps(val) with the default separators; the strings of the model
\* need no escaping but for the newline between the lines of a text, and
\* the mappings serialised here have one key
RECURSIVE JsonDumps(_)
JsonDumps(val) ==
  CASE val.t = "none" -> "null"
    [] val.t = "int"  -> ToString(val.v)
    [] val.t = "str"  -> "\"" \o val.v \o "\""
    [] val.t = "text" -> "\"" \o Join(val.lines, "\\n") \o "\""
    [] val.t = "list" ->
         "[" \o Join([i \in 1..Len(val.l) |-> JsonDumps(val.l[i])], ", ") \o "]"
    [] val.t = "dict" ->
         IF DOMAIN val.d = {} THEN "{}"
         ELSE LET k == CHOOSE x \in DOMAIN val.d : TRUE
              IN  "{\"" \o k \o "\": " \o JsonDumps(val.d[k]) \o "}"

\* str(resp) as a value
StrOf(resp) ==
  IF resp.t \in {"str", "text"} THEN resp ELSE MkStr(PyToStr(resp))

\* to_str_or_none(val)
to_str_or_none(val) ==
  CASE val.t = "none" -> PyNone
    [] val.t \in {"dict", "list"} -> MkStr(JsonDumps(val))
    [] OTHER -> StrOf(val)

\* to_json_fallback(resp) for the values of the model (none has model_dump
\* or model_dump_json): a dict is dumped, a str that json.loads accepts is
\* returned as it is, anything else is wrapped as {"output": str(resp)}
to_json_fallback(resp) ==
  CASE resp.t = "dict" -> MkJsonText(resp)
    [] resp.t = "str" /\ JsonLoads(resp.v).ok -> resp
    [] OTHER -> MkJsonText(MkDict([k \in {"output"} |-> StrOf(resp)]))

\* what assign(variables, variable, var_value) stores
assign(var_value) ==
  CASE var_value.t = "none" -> PyNone
    [] var_value.t = "jsontext" -> MkStr(JsonDumps(var_value.val))
    [] var_value.t = "str" ->
         IF var_value.v \in JsonLooking /\ JsonLoads(var_value.v).ok
         THEN MkStr(JsonDumps(JsonLoads(var_value.v).val))
         ELSE var_value
    [] var_value.t \in {"dict", "list"} -> MkStr(JsonDumps(var_value))
    [] OTHER -> var_value

MutOutputOf(text, printed_output) == Strip(printed_output)

\* `output = text if text else printed_output.strip()`
OutputOf(text, printed_output) ==
  IF Truthy(text) THEN text ELSE Strip(printed_output)

\* the source a function called at nesting depth d is decorated with
Source(d) == "src" \o ToString(d)

\* the lines the wrapper prints (their variable tails left out)
StartingLine(d) == "[ANOSYS Logger: " \o Source(d) \o "] Starting..."

InputArgsLine(d) == "[ANOSYS Logger: " \o Source(d) \o "] Input args"

CapturedLine(d) == "[ANOSYS Logger: " \o Source(d) \o "] Captured output"

PostFailedLines == <<"[ANOSYS] POST failed", "[ANOSYS] Data">>

\* a write of whole lines to the stream `target` refers to: the console (0)
\* or the StringIO created by the live frame at that depth
WriteTo(stk, con, target, lines) ==
  IF target = 0 THEN [stack |-> stk, console |-> con \o lines]
  ELSE IF target \in 1..Len(stk)
  THEN [stack |-> [stk EXCEPT ![target].buf = @ \o lines], console |-> con]
  ELSE [stack |-> stk, console |-> con]

\* sys.stdout.getvalue()
GetValue(stk, con, target) ==
  IF target \in 1..Len(stk) THEN stk[target].buf ELSE <<>>

MutRestoreTarget(frame) == 0

\* `sys.stdout = old_stdout`
RestoreTarget(frame) == frame.old_stdout

PrintSet == {"hello", "7", "{\"a\":1}"}

RetSet ==
  {PyNone, MkStr(""), MkStr("hi"), MkStr("7"), MkInt(0), MkInt(5),
   MkDict([k \in {"a"} |-> MkInt(1)])}

ArgsSet == {<<>>, <<MkStr("x")>>}

Top == stack[Len(stack)]

OthersOfDecorator ==
  <<module, last, thr, written, epc, spans_n, span_i, new_attrs, used,
    posted, result>>

\* the wrapper is entered (lines 89-94): once from outside, and from the
\* body of a running decorated function
Call(args) ==
  /\ ncalls < MaxCalls
  /\ Len(stack) < MaxDepth
  /\ IF stack = <<>> THEN ncalls = 0 ELSE Top.pc = "running"
  /\ LET d == Len(stack) + 1
         w == WriteTo(stack, console, sys_stdout,
                      <<StartingLine(d), InputArgsLine(d)>>)
     IN  /\ stack' = Append(w.stack,
                       [pc |-> "running", old_stdout |-> sys_stdout,
                        buf |-> <<>>, args |-> args, text |-> PyNone,
                        printed_output |-> <<>>, nprint |-> 0,
                        variables |-> <<>>, payload |-> EmptyMap])
         /\ console' = w.console
         /\ sys_stdout' = d
  /\ ncalls' = ncalls + 1
  /\ UNCHANGED <<key_to_cvs, logged>>

\* the wrapped function prints a line
FuncPrint(line) ==
  /\ stack # <<>>
  /\ Top.pc = "running"
  /\ Top.nprint < MaxPrints
  /\ LET w == WriteTo([stack EXCEPT ![Len(stack)].nprint = @ + 1],
                      console, sys_stdout, <<line>>)
     IN  stack' = w.stack /\ console' = w.console
  /\ UNCHANGED <<key_to_cvs, sys_stdout, logged, ncalls>>

\* the wrapped function returns (lines 96-97)
FuncReturn(value) ==
  /\ stack # <<>>
  /\ Top.pc = "running"
  /\ stack' = [stack EXCEPT
       ![Len(stack)].text = value,
       ![Len(stack)].printed_output = GetValue(stack, console, sys_stdout),
       ![Len(stack)].pc = "finally"]
  /\ UNCHANGED <<key_to_cvs, sys_stdout, console, logged, ncalls>>

\* the wrapped function raises, or lets an exception of a nested call pass
FuncRaise ==
  /\ stack # <<>>
  /\ Top.pc = "running"
  /\ stack' = [stack EXCEPT ![Len(stack)].pc = "finally_exc"]
  /\ UNCHANGED <<key_to_cvs, sys_stdout, console, logged, ncalls>>

\* the finally clause (line 99), on the normal and on the exception path
Finally ==
  /\ stack # <<>>
  /\ Top.pc \in {"finally", "finally_exc"}
  /\ sys_stdout' = RestoreTarget(Top)
  /\ stack' = [stack EXCEPT ![Len(stack)].pc =
                 IF Top.pc = "finally" THEN "log" ELSE "propagate"]
  /\ UNCHANGED <<key_to_cvs, console, logged, ncalls>>

\* the exception leaves the wrapper; a caller's body goes on (it may raise
\* in turn)
Propagate ==
  /\ stack # <<>>
  /\ Top.pc = "propagate"
  /\ stack' = SubSeq(stack, 1, Len(stack) - 1)
  /\ UNCHANGED <<key_to_cvs, sys_stdout, console, logged, ncalls>>

\* lines 101-109: the output is chosen, printed and the record is filled
Log ==
  /\ stack # <<>>
  /\ Top.pc = "log"
  /\ LET d == Len(stack)
         output == OutputOf(Top.text, Top.printed_output)
         input_array == MkList([i \in 1..Len(Top.args) |->
                                  to_str_or_none(Top.args[i])])
         w == WriteTo(stack, console, sys_stdout, <<CapturedLine(d)>>)
     IN  /\ stack' = [w.stack EXCEPT
              ![d].variables =
                 << <<"source", assign(to_str_or_none(MkStr(Source(d))))>>,
                    <<"input", assign(input_array)>>,
                    <<"output", assign(to_json_fallback(output))>> >>,
              ![d].pc = "post"]
         /\ console' = w.console
  /\ UNCHANGED <<key_to_cvs, sys_stdout, logged, ncalls>>

\* lines 111-116: reassign(variables), requests.post, raise_for_status
DecoratorPost(outcome) ==
  /\ stack # <<>>
  /\ Top.pc = "post"
  /\ LET d == Len(stack)
         r == ReassignOn(key_to_cvs, Top.variables, DecoratorStart)
         w == WriteTo(stack, console, sys_stdout,
                      IF outcome = "ok" THEN <<>> ELSE PostFailedLines)
     IN  /\ key_to_cvs' = r.m
         /\ logged' = logged + 1
         /\ stack' = [w.stack EXCEPT ![d].payload = r.out, ![d].pc = "return"]
         /\ console' = w.console
  /\ UNCHANGED <<sys_stdout, ncalls>>

\* `return text`
Return ==
  /\ stack # <<>>
  /\ Top.pc = "return"
  /\ stack' = SubSeq(stack, 1, Len(stack) - 1)
  /\ UNCHANGED <<key_to_cvs, sys_stdout, console, logged, ncalls>>

InitDecorator ==
  /\ module = "decorator"
  /\ key_to_cvs = DecoratorMap
  /\ last = NoCall
  /\ InitRest

NextDecorator ==
  \/ \E args \in ArgsSet : Call(args) /\ UNCHANGED OthersOfDecorator
  \/ \E line \in PrintSet : FuncPrint(line) /\ UNCHANGED OthersOfDecorator
  \/ \E value \in RetSet : FuncReturn(value) /\ UNCHANGED OthersOfDecorator
  \/ FuncRaise /\ UNCHANGED OthersOfDecorator
  \/ Finally /\ UNCHANGED OthersOfDecorator
  \/ Propagate /\ UNCHANGED OthersOfDecorator
  \/ Log /\ UNCHANGED OthersOfDecorator
  \/ \E outcome \in PostOutcomes : DecoratorPost(outcome) /\ UNCHANGED OthersOfDecorator
  \/ Return /\ UNCHANGED OthersOfDecorator

SpecDecorator == InitDecorator /\ [][NextDecorator]_vars

(***************************************************************************)
(* Claims about the sequential remapper (specification Spec).              *)
(***************************************************************************)
\* positions of data whose key was not in the mapping when the call began
NewPositions(call) ==
  {i \in 1..Len(call.data) : call.data[i][1] \notin call.known}

\* the last position of data whose key has the same token as position i
LastWithToken(data, i) ==
  CHOOSE j \in 1..Len(data) :
    /\ key_to_cvs[data[j][1]] = key_to_cvs[data[i][1]]
    /\ \A h \in 1..Len(data) :
         key_to_cvs[data[h][1]] = key_to_cvs[data[i][1]] => h <= j

\* C1: across any sequence of reassign calls the Field Mapping only grows:
\* no key is removed, a mapped key keeps its token, and a later call that
\* contains the key emits under that same token.
C1_MappingOnlyGrows ==
  [][ /\ \A k \in DOMAIN key_to_cvs :
            k \in DOMAIN key_to_cvs' /\ key_to_cvs'[k] = key_to_cvs[k]
      /\ last'.kind = "returned" =>
            \A k \in Keys(last'.data) \cap DOMAIN key_to_cvs :
               key_to_cvs[k] \in DOMAIN last'.out ]_vars

\* a call contained a key that an earlier call (with another starting
\* index) had mapped, and emitted under the earlier token
C1_Witness ==
  /\ last.kind = "returned"
  /\ \E i \in 1..Len(last.data) :
       /\ last.data[i][1] \in NewKeys \cap last.known
       /\ key_to_cvs[last.data[i][1]] \in DOMAIN last.out
       /\ key_to_cvs[last.data[i][1]] \notin
            {Token(last.start + n) : n \in 0..Len(last.data)}

\* C2: in one call the k-th previously unmapped key (k = 0, 1, ...) gets
\* the token "cvs" + (starting_index + k); mapped keys consume no index and
\* the counter restarts at starting_index in every call.
C2_TokensFromStartingIndex ==
  last.kind = "returned" =>
    \A i \in NewPositions(last) :
       key_to_cvs[last.data[i][1]] =
         Token(last.start + Cardinality({j \in NewPositions(last) : j < i}))

\* a call whose first key was already mapped and whose second key was new:
\* the new key got starting_index itself, which an earlier call had already
\* given to another key
C2_Witness ==
  /\ last.kind = "returned"
  /\ Len(last.data) = 2
  /\ NewPositions(last) = {2}
  /\ key_to_cvs[last.data[2][1]] = Token(last.start)
  /\ \E k \in last.known \cap NewKeys : key_to_cvs[k] = Token(last.start)

\* C10: sequential calls can give two keys the same token (also the token
\* of a fixed alias); a call containing both returns one entry per token,
\* fewer entries than keys, holding the value of the key iterated later.
C10_CollidingTokens ==
  last.kind = "returned" =>
    /\ DOMAIN last.out = {key_to_cvs[k] : k \in Keys(last.data)}
    /\ \A i \in 1..Len(last.data) :
         last.out[key_to_cvs[last.data[i][1]]] =
           StrOrNone(last.data[LastWithToken(last.data, i)][2])
    /\ (\E i, j \in 1..Len(last.data) :
          i # j /\ key_to_cvs[last.data[i][1]] = key_to_cvs[last.data[j][1]])
         => Cardinality(DOMAIN last.out) < Len(last.data)

\* two unseen keys share a token, that token is a fixed alias's, and a call
\* holding the alias key and one of them returned a single entry with the
\* later key's value, which differs from the earlier key's
C10_Witness ==
  /\ last.kind = "returned"
  /\ {"k1", "k2"} \subseteq DOMAIN key_to_cvs
  /\ key_to_cvs["k1"] = key_to_cvs["k2"]
  /\ key_to_cvs["k1"] = InitMap(module)[AliasKey(module)]
  /\ Len(last.data) = 2
  /\ last.data[1][1] = AliasKey(module)
  /\ last.data[2][1] = "k1"
  /\ Cardinality(DOMAIN last.out) = 1
  /\ StrOrNone(last.data[1][2]) # StrOrNone(last.data[2][2])
  /\ last.out[key_to_cvs["k1"]] = StrOrNone(last.data[2][2])

(***************************************************************************)
(* Claims about two racing reassign calls (specification SpecConc).        *)
(***************************************************************************)
AllDone == \A t \in Threads : thr[t].pc = "done"

\* the keys both calls contain and no module knew before
SharedNew == Keys(thr[1].data) \cap Keys(thr[2].data) \cap NewKeys

Range(seq) == {seq[i] : i \in 1..Len(seq)}

ValueOfKey(t, k) ==
  thr[t].data[CHOOSE i \in 1..Len(thr[t].data) : thr[t].data[i][1] = k][2]

\* C8 as stated: after every interleaving a shared unseen key has the token
\* written last, and each call returns that key's value under a token one
\* of the two calls wrote for the key.
C8_EachCallReturnsItsValue ==
  AllDone =>
    \A k \in SharedNew :
      /\ key_to_cvs[k] = written[k][Len(written[k])]
      /\ \A t \in Threads :
           \E tok \in Range(written[k]) :
             /\ tok \in DOMAIN thr[t].cvs_vars
             /\ thr[t].cvs_vars[tok] = StrOrNone(ValueOfKey(t, k))

\* C8 amended: the key ends with the token written last; each call emits
\* the key's value under a token one of the two calls wrote for it, and its
\* returned mapping holds that value there unless a later key of the same
\* call has the same token, whose value replaces it.  Nothing else goes
\* wrong: the map read never misses, no key is lost, fixed aliases keep
\* their tokens and each call writes a key at most once.
C8_LastWriteWins ==
  /\ \A k \in DOMAIN InitMap(module) :
       k \in DOMAIN key_to_cvs /\ key_to_cvs[k] = InitMap(module)[k]
  /\ \A t \in Threads :
       /\ thr[t].pc = "read" => CurKey(t) \in DOMAIN key_to_cvs
       /\ \A i \in 1..(thr[t].i - 1) : thr[t].data[i][1] \in DOMAIN key_to_cvs
  /\ \A k \in DOMAIN written :
       /\ Len(written[k]) \in 1..2
       /\ key_to_cvs[k] = written[k][Len(written[k])]
  /\ AllDone =>
       \A k \in SharedNew : \A t \in Threads :
         /\ thr[t].toks[k] \in Range(written[k])
         /\ thr[t].toks[k] \in DOMAIN thr[t].cvs_vars
         /\ LET pos  == CHOOSE i \in 1..Len(thr[t].data) : thr[t].data[i][1] = k
                later == {j \in 1..Len(thr[t].data) :
                            j > pos /\ thr[t].toks[thr[t].data[j][1]] = thr[t].toks[k]}
            IN  later = {} =>
                  thr[t].cvs_vars[thr[t].toks[k]] = StrOrNone(ValueOfKey(t, k))

\* both calls found the shared key unmapped and wrote it with different
\* tokens: the first call returned under its own token, which the mapping
\* no longer holds
C8_Witness ==
  /\ AllDone
  /\ \E k \in SharedNew :
       /\ Len(written[k]) = 2
       /\ written[k][1] # written[k][2]
       /\ \E t \in Threads :
            thr[t].toks[k] = written[k][1] /\ key_to_cvs[k] # thr[t].toks[k]

(***************************************************************************)
(* Claims about the reconstructor and the exporter (specification          *)
(* SpecExport).                                                            *)
(***************************************************************************)
\* C7: reconstructing {"a.b.0.c": "x", "a.b.1.c": "y"} into an empty
\* mapping yields {"a": {"b": [{"c": "x"}, {"c": "y"}]}}: the integer
\* segment indexes a sequence stored in the parent under the preceding
\* segment and both entries accumulate in that sequence.
C7_ReconstructsNestedTree ==
  ( /\ epc # "idle"
    /\ used = << <<<<"a", "b", "0", "c">>, MkStr("x")>>,
                 <<<<"a", "b", "1", "c">>, MkStr("y")>> >> )
  => /\ result # "raised"
     /\ new_attrs =
          MkDict([k1 \in {"a"} |->
            MkDict([k2 \in {"b"} |->
              MkList(<< MkDict([k3 \in {"c"} |-> MkStr("x")]),
                        MkDict([k3 \in {"c"} |-> MkStr("y")]) >>)])])

\* C9: set_nested on a mapping target with a path whose first segment is a
\* decimal integer does not raise and writes no sequence into the target
\* under any key.
C9_NumericFirstSegmentSkipped ==
  [][ ( /\ Len(used') = Len(used) + 1
        /\ IsIntSeg(used'[Len(used')][1][1]) )
      => /\ result' # "raised"
         /\ \A k \in DOMAIN new_attrs'.d :
              new_attrs'.d[k].t = "list" =>
                k \in DOMAIN new_attrs.d /\ new_attrs.d[k] = new_attrs'.d[k]
    ]_vars

\* C3: a POST is attempted for every span of the batch exactly once, in
\* batch order, whatever the outcome of the earlier POSTs.
C3_EverySpanPostedOnce ==
  epc = "done" =>
    [i \in 1..Len(posted) |-> posted[i][1]] = [i \in 1..spans_n |-> i]

\* C4: export never raises and always returns SUCCESS, whatever the shapes
\* of the spans' attributes and whatever the POST outcomes.
C4_AlwaysSuccess ==
  /\ result # "raised"
  /\ epc = "done" => result = "SUCCESS"

(***************************************************************************)
(* Claims about the decorator (specification SpecDecorator).               *)
(***************************************************************************)
\* what the frame chose to log: the return value when truthy, else the
\* captured text without its final newline
Selected(frame) ==
  IF Truthy(frame.text) THEN frame.text ELSE Strip(frame.printed_output)

\* the value the frame stored in variables["output"]
LoggedOutput(frame) == frame.variables[3][2]

\* C5: in one thread, nested calls included, standard output is redirected
\* to the call's own fresh buffer only while the wrapped function runs; on
\* the normal and on the exception path sys.stdout is back at the target it
\* had when the wrapper redirected it before the wrapper logs or posts and
\* before the exception goes on.
C5_StdoutRestored ==
  /\ stack = <<>> => sys_stdout = 0
  /\ \A d \in 1..Len(stack) :
       /\ stack[d].old_stdout = d - 1
       /\ d < Len(stack) => stack[d].pc = "running"
       /\ {StartingLine(d), InputArgsLine(d), CapturedLine(d)}
            \cap Range(stack[d].buf) = {}
       /\ d = Len(stack) =>
            /\ stack[d].pc \in {"running", "finally", "finally_exc"}
                 => sys_stdout = d
            /\ stack[d].pc \in {"log", "post", "return", "propagate"}
                 => sys_stdout = stack[d].old_stdout

\* a nested decorated call raised: its exception is about to reach the
\* outer function while sys.stdout is the outer call's buffer again, which
\* holds the nested wrapper's first lines
C5_Witness ==
  /\ Len(stack) = 2
  /\ Top.pc = "propagate"
  /\ sys_stdout = 1
  /\ StartingLine(2) \in Range(stack[1].buf)
  /\ Top.buf # <<>>

====
